---- MODULE Spec2Model ----
(***************************************************************************)
(* The asynchronous transcode pipeline of video_transcoder:                *)
(*   - the Job store (src/models/Job.js),                                  *)
(*   - the admission API (controllers/asyncUploadController.js),           *)
(*   - the 'video-transcode' queue, its lifecycle events and their mirror  *)
(*     into the Job store (config/queue.js),                               *)
(*   - the worker of 'video-transcode' (workers/transcodeWorker.js),       *)
(*   - the recording pipeline: automate.js -> 'upload-queue' ->            *)
(*     'transcode-fast' -> 'transcode-background' (workers/uploadWorker.js)*)
(*   - the HLS proxy of the upload controller (playlist, master, segment). *)
(* Identifiers (job ids, queue entry ids, object keys) are pairs           *)
(* <<kind, n>>, so that any two of them can be compared.                   *)
(***************************************************************************)
EXTENDS Integers, Sequences, FiniteSets, TLC

VARIABLES
    jobs,       \* the Job collection: jobId -> document
    entries,    \* queue entries: <<queue, id>> -> entry
    events,     \* 'video-transcode' event stream not yet seen by the API server
    run,        \* per worker: the processJob / processUpload invocation it runs
    store,      \* object store: the keys present under the output prefixes
    retry,      \* per retry request: position in retryFailedJob and its locals
    del,        \* the delete request: position in deleteJob
    adm,        \* per upload: position in uploadAndEnqueue
    hook,       \* per recording: position in automate.js' closing webhook
    nextAuto,   \* per queue: the next auto-generated entry id
    nextUuid,   \* number of uuid()s drawn by workers for sibling Jobs
    faults,     \* injected exceptions so far
    crashes,    \* worker crashes so far
    proxy       \* the HLS proxy request being served and its response

vars == <<jobs, entries, events, run, store, retry, del, adm, hook,
          nextAuto, nextUuid, faults, crashes, proxy>>

----------------------------------------------------------------------------
\* Bounds of the model.
MaxUploads == 1        \* POST /v1/upload requests
MaxRecordings == 1     \* recordings closed by the streaming webhook
MaxRetryCalls == 2     \* concurrent POST /v1/jobs/{id}/retry requests
MaxFaults == 3         \* exceptions injected into worker steps
MaxCrashes == 2        \* worker crashes (lock expiry without renewal)
MaxSiblings == 2       \* background sibling Jobs a worker may create

\* Program constants.
JobMaxAttempts == 3       \* Job.maxAttempts default
QueueAttempts == 3        \* defaultJobOptions.attempts of 'video-transcode'
DefaultAttempts == 1      \* queue.add() without attempts: a single attempt
TWMaxStalledCount == 2    \* maxStalledCount of the 'video-transcode' worker
DefaultMaxStalledCount == 1  \* BullMQ default, used by the burst workers

VT == "video-transcode"
UQ == "upload-queue"
FQ == "transcode-fast"
BQ == "transcode-background"

NoUrl == <<"unset", 0>>
NoKey == <<"none", 0>>

UploadIds == {<<"a", n>> : n \in 1..MaxUploads}
RecordingIds == {<<"r", n>> : n \in 1..MaxRecordings}

Terminal == {"completed", "failed"}

----------------------------------------------------------------------------
\* Job store (mongoose model Job).

\* A new Job document: schema defaults for everything not given.
NewJob(key, status) ==
    [status |-> status, progress |-> 0, attempts |-> 0,
     maxAttempts |-> JobMaxAttempts, url |-> NoUrl, error |-> "none",
     key |-> key,
     resolutions |-> [r \in {"360p", "480p", "720p", "1080p"} |-> "pending"]]

Exists(j) == j \in DOMAIN jobs

\* Job.findOneAndUpdate({jobId}, patch): no upsert, so a missing Job is left
\* missing. patch is a function from some field names to values.
Patched(doc, patch) ==
    [f \in DOMAIN doc |-> IF f \in DOMAIN patch THEN patch[f] ELSE doc[f]]

FindOneAndUpdate(j, patch) ==
    IF Exists(j) THEN [jobs EXCEPT ![j] = Patched(jobs[j], patch)] ELSE jobs

\* A failure update without its $inc.
FailUpdateNotCounting(j, err) ==
    IF Exists(j)
    THEN [jobs EXCEPT ![j] = [@ EXCEPT !.status = "failed", !.error = err]]
    ELSE jobs

\* The failure update of the worker's catch:
\* { status: 'failed', failedAt, $inc: { attempts: 1 }, error }.
FailUpdate(j, err) ==
    IF Exists(j)
    THEN [jobs EXCEPT ![j] = [@ EXCEPT !.status = "failed",
                                       !.attempts = @ + 1,
                                       !.error = err]]
    ELSE jobs

\* Job.create / job.save of a new document.
Insert(j, doc) == jobs @@ (j :> doc)

\* Job.deleteOne({jobId}).
DeleteOne(j) == [k \in DOMAIN jobs \ {j} |-> jobs[k]]

----------------------------------------------------------------------------
\* Object keys.

\* rawVideoKey.replace('raw-videos/', '').replace(/\.[^/.]+$/, '')
HlsPrefix(key) == IF key[1] = "raw-videos" THEN <<"", key[2]>> ELSE key

\* `${baseUrl}/api/upload/hls/${hlsPrefix.replace('recordings/', '')}/master.m3u8`
\* (the path between hls/ and /master.m3u8)
UWStreamUrl(prefix) == IF prefix[1] = "recordings" THEN <<"", prefix[2]>> ELSE prefix

\* `${baseUrl}/api/upload/hls/${hlsPrefix}/master.m3u8`
TWStreamUrl(prefix) == prefix

Resolutions == {"360p", "480p", "720p", "1080p"}

\* What transcodeVideo(inputPath, outputDir) leaves in outputDir: for each
\* resolution of its table a variant playlist and its segments. It takes no
\* third argument and writes no master playlist.
TranscodeVideo(opts) ==
    {<<r, f>> : r \in Resolutions, f \in {"index.m3u8", "segment000.ts"}}

MasterFile == <<"", "master.m3u8">>
InputFile == <<"", "input">>

ObjKey(prefix, file) == <<prefix, file>>

----------------------------------------------------------------------------
\* Queue entries (BullMQ jobs in Redis).

HasEntry(q, id) == <<q, id>> \in DOMAIN entries

\* A new entry: its data (jobId, rawVideoKey, transcodeType) and the queue's
\* bookkeeping.
NewEntry(j, key, type, attempts) ==
    [jobId |-> j, key |-> key, type |-> type, state |-> "waiting",
     attemptsMade |-> 0, attempts |-> attempts, stalled |-> 0,
     locked |-> FALSE]

\* queue.add(name, data, {jobId: id}): an entry with that id is added once;
\* a second add with an id the queue still holds is ignored.
AddWithId(q, id, e) ==
    IF HasEntry(q, id) THEN entries ELSE entries @@ (<<q, id>> :> e)

\* queue.add(name, data): the queue draws the next id of its counter.
AddAuto(q, e) == entries @@ (<<q, <<"n", nextAuto[q]>>>> :> e)

\* addTranscodeJob(jobData): transcodeQueue.add('transcode', jobData,
\* {jobId: jobData.jobId}) with the queue's defaultJobOptions (attempts: 3).
\* jobData carries no transcodeType.
AddTranscodeJob(j, key) ==
    AddWithId(VT, j, NewEntry(j, key, "unset", QueueAttempts))

\* An event written to the queue's event stream (XADD).
Emit(ev) == Append(events, ev)

Event(type, id, data) == [type |-> type, id |-> id, data |-> data]

----------------------------------------------------------------------------
\* A worker outside its processor; e: the entry it runs, tmp: whether its
\* tempDir exists, sib: the newJobId it drew, lost: whether the lock of its
\* entry expired under it.
Idle ==
    [pc |-> "idle", e |-> <<"", NoKey>>, tmp |-> FALSE, sib |-> NoKey,
     lost |-> FALSE]

\* No proxy request: kind of request, quality, the object behind the key
\* (its body), the object-store error met, and the response (status, body
\* sent, whether any of the body was written).
NoRequest ==
    [pc |-> "idle", kind |-> "none", q |-> "none", obj |-> <<>>,
     err |-> "none", status |-> 0, out |-> <<>>, wrote |-> FALSE]

\* The pipeline before any request, webhook or job.
InitPipeline ==
    /\ jobs = <<>>
    /\ entries = <<>>
    /\ events = <<>>
    /\ run = [w \in {"tw", "up", "fast", "fast2", "bg"} |-> Idle]
    /\ store = {}
    /\ retry = [h \in 1..MaxRetryCalls |->
                  [pc |-> "idle", j |-> NoKey, resp |-> 0, key |-> NoKey,
                   overlap |-> FALSE]]
    /\ del = [pc |-> "idle", j |-> NoKey, resp |-> 0]
    /\ adm = [j \in UploadIds |-> [pc |-> "idle", resp |-> 0]]
    /\ hook = [j \in RecordingIds |-> "idle"]
    /\ nextAuto = [q \in {UQ, FQ, BQ} |-> 1]
    /\ nextUuid = 0
    /\ faults = 0
    /\ crashes = 0

Init == InitPipeline /\ proxy = NoRequest

----------------------------------------------------------------------------
\* POST /v1/upload: uploadAndEnqueue (the file is already in the bucket).

\* The key multer-s3 gave the upload: raw-videos/{uuid}-{name}{ext}.
UploadKey(j) == <<"raw-videos", j[2]>>

\* job.save() of the new Job document.
A_Save(j) ==
    /\ adm[j].pc = "idle"
    /\ ~Exists(j)
    /\ jobs' = Insert(j, NewJob(UploadKey(j), "queued"))
    /\ adm' = [adm EXCEPT ![j].pc = "saved"]
    /\ UNCHANGED <<proxy, entries, events, run, store, retry, del, hook, nextAuto,
                   nextUuid, faults, crashes>>

\* The entry added to the fast lane with transcodeType 'fast', and the 202
\* answer.
A_EnqueueFastLane(j) ==
    /\ adm[j].pc = "saved"
    /\ entries' = AddWithId(FQ, j, NewEntry(j, UploadKey(j), "fast",
                                            QueueAttempts))
    /\ adm' = [adm EXCEPT ![j] = [pc |-> "done", resp |-> 202]]
    /\ UNCHANGED <<proxy, jobs, events, run, store, retry, del, hook, nextAuto,
                   nextUuid, faults, crashes>>

\* addTranscodeJob(...) and the 202 answer.
A_Enqueue(j) ==
    /\ adm[j].pc = "saved"
    /\ entries' = AddTranscodeJob(j, UploadKey(j))
    /\ adm' = [adm EXCEPT ![j] = [pc |-> "done", resp |-> 202]]
    /\ UNCHANGED <<proxy, jobs, events, run, store, retry, del, hook, nextAuto,
                   nextUuid, faults, crashes>>

\* addTranscodeJob throws (queue backend unreachable): caught, 500.
A_EnqueueThrows(j) ==
    /\ adm[j].pc = "saved"
    /\ faults < MaxFaults
    /\ faults' = faults + 1
    /\ adm' = [adm EXCEPT ![j] = [pc |-> "done", resp |-> 500]]
    /\ UNCHANGED <<proxy, jobs, entries, events, run, store, retry, del, hook,
                   nextAuto, nextUuid, crashes>>

----------------------------------------------------------------------------
\* POST /v1/jobs/{id}/retry: retryFailedJob.

\* Whether another request for Job j has passed its checks and not answered.
InFlight(h, j) ==
    \E g \in 1..MaxRetryCalls :
        g # h /\ retry[g].j = j /\ retry[g].pc \in {"checked", "updated"}

\* Job.findOne and the three early returns. overlap only records, for the
\* properties, that the request arrived while another one was in flight.
R_Read(h, j) ==
    /\ retry[h].pc = "idle"
    /\ \A g \in 1..(h - 1) : retry[g].pc # "idle"   \* numbered as they arrive
    /\ LET answer(code) == [pc |-> "done", j |-> j, resp |-> code,
                            key |-> NoKey, overlap |-> InFlight(h, j)]
       IN retry' = [retry EXCEPT ![h] =
            IF ~Exists(j) THEN answer(404)
            ELSE IF jobs[j].status # "failed" THEN answer(400)
            ELSE IF jobs[j].attempts >= jobs[j].maxAttempts THEN answer(400)
            ELSE [pc |-> "checked", j |-> j, resp |-> 0, key |-> jobs[j].key,
                  overlap |-> InFlight(h, j)]]
    /\ UNCHANGED <<proxy, jobs, entries, events, run, store, del, adm, hook, nextAuto,
                   nextUuid, faults, crashes>>

\* Job.findOneAndUpdate({jobId}, {status: 'queued', queuedAt, error: null}).
R_Update(h) ==
    /\ retry[h].pc = "checked"
    /\ jobs' = FindOneAndUpdate(retry[h].j,
                  [f \in {"status", "error"} |->
                      IF f = "status" THEN "queued" ELSE "none"])
    /\ retry' = [retry EXCEPT ![h].pc = "updated"]
    /\ UNCHANGED <<proxy, entries, events, run, store, del, adm, hook, nextAuto,
                   nextUuid, faults, crashes>>

\* addTranscodeJob(...) and the 200 answer.
R_Enqueue(h) ==
    /\ retry[h].pc = "updated"
    /\ entries' = AddTranscodeJob(retry[h].j, retry[h].key)
    /\ retry' = [retry EXCEPT ![h].pc = "done", ![h].resp = 200]
    /\ UNCHANGED <<proxy, jobs, events, run, store, del, adm, hook, nextAuto,
                   nextUuid, faults, crashes>>

\* addTranscodeJob throws: caught, 500.
R_EnqueueThrows(h) ==
    /\ retry[h].pc = "updated"
    /\ faults < MaxFaults
    /\ faults' = faults + 1
    /\ retry' = [retry EXCEPT ![h].pc = "done", ![h].resp = 500]
    /\ UNCHANGED <<proxy, jobs, entries, events, run, store, del, adm, hook,
                   nextAuto, nextUuid, crashes>>

----------------------------------------------------------------------------
\* DELETE /v1/jobs/{id}: deleteJob.

\* deleteJob without its check of the status it read.
D_ReadNoRefusal(j) ==
    /\ del.pc = "idle"
    /\ del' = IF ~Exists(j) THEN [pc |-> "done", j |-> j, resp |-> 404]
              ELSE [pc |-> "checked", j |-> j, resp |-> 0]
    /\ UNCHANGED <<proxy, jobs, entries, events, run, store, retry, adm, hook,
                   nextAuto, nextUuid, faults, crashes>>

\* Job.findOne and the two early returns.
D_Read(j) ==
    /\ del.pc = "idle"
    /\ del' = IF ~Exists(j) THEN [pc |-> "done", j |-> j, resp |-> 404]
              ELSE IF jobs[j].status = "processing"
                THEN [pc |-> "done", j |-> j, resp |-> 400]
              ELSE [pc |-> "checked", j |-> j, resp |-> 0]
    /\ UNCHANGED <<proxy, jobs, entries, events, run, store, retry, adm, hook,
                   nextAuto, nextUuid, faults, crashes>>

\* Job.deleteOne({jobId}) and the 200 answer.
D_Delete ==
    /\ del.pc = "checked"
    /\ jobs' = DeleteOne(del.j)
    /\ del' = [del EXCEPT !.pc = "done", !.resp = 200]
    /\ UNCHANGED <<proxy, entries, events, run, store, retry, adm, hook, nextAuto,
                   nextUuid, faults, crashes>>

\* Job.deleteOne throws: caught, 500.
D_DeleteThrows ==
    /\ del.pc = "checked"
    /\ faults < MaxFaults
    /\ faults' = faults + 1
    /\ del' = [del EXCEPT !.pc = "done", !.resp = 500]
    /\ UNCHANGED <<proxy, jobs, entries, events, run, store, retry, adm, hook,
                   nextAuto, nextUuid, crashes>>

----------------------------------------------------------------------------
\* The queue's side of a worker (BullMQ Worker): claim, finish, retry, stall.

MaxStalledCount(q) == IF q = VT THEN TWMaxStalledCount ELSE DefaultMaxStalledCount

\* Only 'video-transcode' has a QueueEvents listener on the API server.
EmitFor(k, type, data) ==
    IF k[1] = VT THEN Emit(Event(type, k[2], data)) ELSE events

\* The worker takes a waiting entry: it becomes active and locked.
Claim(w, k, firstPc) ==
    /\ run[w].pc = "idle"
    /\ k \in DOMAIN entries
    /\ entries[k].state = "waiting"
    /\ entries' = [entries EXCEPT ![k].state = "active", ![k].locked = TRUE]
    /\ events' = EmitFor(k, "active", NoUrl)
    /\ run' = [run EXCEPT ![w] = [Idle EXCEPT !.pc = firstPc, !.e = k]]

\* The processor returned: the entry is completed with its return value.
MoveToCompleted(k, ret) ==
    /\ entries' = [entries EXCEPT ![k].state = "completed", ![k].locked = FALSE]
    /\ events' = EmitFor(k, "completed", ret)

\* The processor threw: one more attempt made; the entry is delayed for a
\* retry while attempts remain, and failed (with a 'failed' event) otherwise.
MoveToFailed(k) ==
    LET made == entries[k].attemptsMade + 1 IN
    IF made < entries[k].attempts
    THEN /\ entries' = [entries EXCEPT ![k].state = "delayed",
                                       ![k].attemptsMade = made,
                                       ![k].locked = FALSE]
         /\ UNCHANGED events
    ELSE /\ entries' = [entries EXCEPT ![k].state = "failed",
                                       ![k].attemptsMade = made,
                                       ![k].locked = FALSE]
         /\ events' = EmitFor(k, "failed", NoUrl)

\* The backoff delay of a delayed entry has passed.
Promote(k) ==
    /\ k \in DOMAIN entries
    /\ entries[k].state = "delayed"
    /\ entries' = [entries EXCEPT ![k].state = "waiting"]
    /\ UNCHANGED <<proxy, jobs, events, run, store, retry, del, adm, hook, nextAuto,
                   nextUuid, faults, crashes>>

\* The worker process dies in the middle of a job: nothing of the processor
\* runs any more (no catch, no finally) and the lock is no longer renewed.
Crash(w) ==
    /\ run[w].pc \notin {"idle"}
    /\ crashes < MaxCrashes
    /\ crashes' = crashes + 1
    /\ entries' = [entries EXCEPT ![run[w].e].locked = FALSE]
    /\ run' = [run EXCEPT ![w] = Idle]
    /\ UNCHANGED <<proxy, jobs, events, store, retry, del, adm, hook, nextAuto,
                   nextUuid, faults>>

\* The stalled-jobs check finds an active entry without lock: back to
\* waiting ('stalled' event) while the stall count allows, failed otherwise.
StallCheck(k) ==
    /\ k \in DOMAIN entries
    /\ entries[k].state = "active"
    /\ ~entries[k].locked
    /\ LET n == entries[k].stalled + 1 IN
       IF n > MaxStalledCount(k[1])
       THEN /\ entries' = [entries EXCEPT ![k].state = "failed", ![k].stalled = n]
            /\ events' = EmitFor(k, "failed", NoUrl)
       ELSE /\ entries' = [entries EXCEPT ![k].state = "waiting", ![k].stalled = n]
            /\ events' = EmitFor(k, "stalled", NoUrl)
    /\ UNCHANGED <<proxy, jobs, run, store, retry, del, adm, hook, nextAuto, nextUuid,
                   faults, crashes>>

----------------------------------------------------------------------------
\* workers/transcodeWorker.js: processJob on an entry of 'video-transcode'.
\* Its entries come from addTranscodeJob only, so transcodeType is unset and
\* defaults to 'full'; lessonId is unset.

TW == "tw"
JobOf(w) == entries[run[w].e].jobId
KeyOf(w) == entries[run[w].e].key
TypeOf(w) == entries[run[w].e].type

TW_Claim(k) ==
    /\ k[1] = VT
    /\ Claim(TW, k, "status")
    /\ UNCHANGED <<proxy, jobs, store, retry, del, adm, hook, nextAuto, nextUuid,
                   faults, crashes>>

\* Job.findOneAndUpdate({jobId}, {status: 'processing', startedAt}).
TW_SetProcessing ==
    /\ run[TW].pc = "status"
    /\ jobs' = FindOneAndUpdate(JobOf(TW), [f \in {"status"} |-> "processing"])
    /\ run' = [run EXCEPT ![TW].pc = "progress5"]
    /\ UNCHANGED <<proxy, entries, events, store, retry, del, adm, hook, nextAuto,
                   nextUuid, faults, crashes>>

\* mkdir tempDir; job.updateProgress(p). The steps that report progress.
TW_Progress(pc, p, next) ==
    /\ run[TW].pc = pc
    /\ events' = EmitFor(run[TW].e, "progress", <<"p", p>>)
    /\ run' = [run EXCEPT ![TW].pc = next, ![TW].tmp = TRUE]
    /\ UNCHANGED <<proxy, jobs, entries, store, retry, del, adm, hook, nextAuto,
                   nextUuid, faults, crashes>>

TW_Progress5 == TW_Progress("progress5", 5, "download")
TW_Progress10 == TW_Progress("progress10", 10, "transcode")
TW_Progress70 == TW_Progress("progress70", 70, "upload")
TW_Progress95 == TW_Progress("progress95", 95, "finalize")

\* A step that only succeeds or throws: downloadFromS3, transcodeVideo.
TW_Step(pc, next) ==
    /\ run[TW].pc = pc
    /\ run' = [run EXCEPT ![TW].pc = next]
    /\ UNCHANGED <<proxy, jobs, entries, events, store, retry, del, adm, hook,
                   nextAuto, nextUuid, faults, crashes>>

TW_Download == TW_Step("download", "progress10")
TW_Transcode == TW_Step("transcode", "progress70")

\* An exception in download, transcode or upload: control goes to catch.
TW_Throws ==
    /\ run[TW].pc \in {"download", "transcode", "upload"}
    /\ faults < MaxFaults
    /\ faults' = faults + 1
    /\ run' = [run EXCEPT ![TW].pc = "catch"]
    /\ UNCHANGED <<proxy, jobs, entries, events, store, retry, del, adm, hook,
                   nextAuto, nextUuid, crashes>>

\* uploadFolderToS3(tempDir, hlsPrefix): the encoder's output and the
\* downloaded input, which both sit in tempDir.
TW_Upload ==
    /\ run[TW].pc = "upload"
    /\ LET prefix == HlsPrefix(KeyOf(TW)) IN
       store' = store \cup {ObjKey(prefix, f) :
                              f \in TranscodeVideo("full") \cup {InputFile}}
    /\ run' = [run EXCEPT ![TW].pc = "progress95"]
    /\ UNCHANGED <<proxy, jobs, entries, events, retry, del, adm, hook, nextAuto,
                   nextUuid, faults, crashes>>

\* Job.findOneAndUpdate({jobId}, {status: 'completed', progress: 100,
\* completedAt, hlsPrefix, hlsStreamUrl}).
TW_Finalize ==
    /\ run[TW].pc = "finalize"
    /\ LET url == TWStreamUrl(HlsPrefix(KeyOf(TW))) IN
       jobs' = FindOneAndUpdate(JobOf(TW),
                  [f \in {"status", "progress", "url"} |->
                      CASE f = "status" -> "completed"
                        [] f = "progress" -> 100
                        [] f = "url" -> url])
    /\ run' = [run EXCEPT ![TW].pc = "return"]
    /\ UNCHANGED <<proxy, entries, events, store, retry, del, adm, hook, nextAuto,
                   nextUuid, faults, crashes>>

\* return { success: true, hlsStreamUrl }; finally removes tempDir; the
\* queue completes the entry.
TW_Return ==
    /\ run[TW].pc = "return"
    /\ MoveToCompleted(run[TW].e, TWStreamUrl(HlsPrefix(KeyOf(TW))))
    /\ run' = [run EXCEPT ![TW] = Idle]
    /\ UNCHANGED <<proxy, jobs, store, retry, del, adm, hook, nextAuto, nextUuid,
                   faults, crashes>>

\* catch: Job.findOneAndUpdate({jobId}, {status: 'failed', failedAt,
\* $inc: {attempts: 1}, error}).
TW_Catch ==
    /\ run[TW].pc = "catch"
    /\ jobs' = FailUpdate(JobOf(TW), "worker")
    /\ run' = [run EXCEPT ![TW].pc = "throw"]
    /\ UNCHANGED <<proxy, entries, events, store, retry, del, adm, hook, nextAuto,
                   nextUuid, faults, crashes>>

\* throw error; finally removes tempDir; the queue counts the attempt.
TW_Rethrow ==
    /\ run[TW].pc = "throw"
    /\ MoveToFailed(run[TW].e)
    /\ run' = [run EXCEPT ![TW] = Idle]
    /\ UNCHANGED <<proxy, jobs, store, retry, del, adm, hook, nextAuto, nextUuid,
                   faults, crashes>>

----------------------------------------------------------------------------
\* config/queue.js: initQueueEvents. The API server reads the event stream
\* of 'video-transcode' in order and mirrors each event into the Job store.
\* The entry id of an event is used as the jobId of the Job to update.

Handle(type, newJobs) ==
    /\ events # <<>>
    /\ Head(events).type = type
    /\ jobs' = newJobs
    /\ events' = Tail(events)
    /\ UNCHANGED <<proxy, entries, run, store, retry, del, adm, hook, nextAuto,
                   nextUuid, faults, crashes>>

\* A 'stalled' handler that also counted an attempt.
MirrorUpdateCountingStalls(ev, doc) ==
    CASE ev.type = "active" ->
            Patched(doc, [f \in {"status"} |-> "processing"])
      [] ev.type = "progress" ->
            Patched(doc, [f \in {"progress"} |-> ev.data[2]])
      [] ev.type = "completed" ->
            Patched(doc, [f \in {"status", "progress", "url"} |->
                            CASE f = "status" -> "completed"
                              [] f = "progress" -> 100
                              [] f = "url" -> ev.data])
      [] ev.type = "failed" ->
            [doc EXCEPT !.status = "failed", !.attempts = @ + 1,
                        !.error = "queue"]
      [] ev.type = "stalled" ->
            [doc EXCEPT !.status = "queued", !.attempts = @ + 1,
                        !.error = "stalled"]

\* A 'failed' handler that also reset the progress.
MirrorUpdateResettingProgress(ev, doc) ==
    CASE ev.type = "active" ->
            Patched(doc, [f \in {"status"} |-> "processing"])
      [] ev.type = "progress" ->
            Patched(doc, [f \in {"progress"} |-> ev.data[2]])
      [] ev.type = "completed" ->
            Patched(doc, [f \in {"status", "progress", "url"} |->
                            CASE f = "status" -> "completed"
                              [] f = "progress" -> 100
                              [] f = "url" -> ev.data])
      [] ev.type = "failed" ->
            [doc EXCEPT !.status = "failed", !.attempts = @ + 1,
                        !.error = "queue", !.progress = 0]
      [] ev.type = "stalled" ->
            Patched(doc, [f \in {"status", "error"} |->
                            IF f = "status" THEN "queued" ELSE "stalled"])

\* The update document each listener passes to Job.findOneAndUpdate, applied
\* to the Job it finds: 'active' {status: 'processing', startedAt};
\* 'progress' {progress: data}; 'completed' {status: 'completed', progress:
\* 100, completedAt, hlsStreamUrl: result.hlsStreamUrl}; 'failed' {status:
\* 'failed', failedAt, $inc: {attempts: 1}, error}; 'stalled' {status:
\* 'queued', error}.
MirrorUpdate(ev, doc) ==
    CASE ev.type = "active" ->
            Patched(doc, [f \in {"status"} |-> "processing"])
      [] ev.type = "progress" ->
            Patched(doc, [f \in {"progress"} |-> ev.data[2]])
      [] ev.type = "completed" ->
            Patched(doc, [f \in {"status", "progress", "url"} |->
                            CASE f = "status" -> "completed"
                              [] f = "progress" -> 100
                              [] f = "url" -> ev.data])
      [] ev.type = "failed" ->
            [doc EXCEPT !.status = "failed", !.attempts = @ + 1,
                        !.error = "queue"]
      [] ev.type = "stalled" ->
            Patched(doc, [f \in {"status", "error"} |->
                            IF f = "status" THEN "queued" ELSE "stalled"])

\* Job.findOneAndUpdate({jobId}, update) of a listener: no upsert.
Mirror1(ev) ==
    IF Exists(ev.id) THEN [jobs EXCEPT ![ev.id] = MirrorUpdate(ev, @)]
    ELSE jobs

OnActive == Handle("active", Mirror1(Head(events)))

OnProgress == Handle("progress", Mirror1(Head(events)))

OnCompleted == Handle("completed", Mirror1(Head(events)))

OnFailed == Handle("failed", Mirror1(Head(events)))

OnStalled == Handle("stalled", Mirror1(Head(events)))

----------------------------------------------------------------------------
\* automate.js: the streaming server's 'closing' webhook for a recording.

RecordingKey(r) == <<"recordings", r[2]>>

\* Job.create({jobId, originalFileName, rawVideoKey, status: 'queued', ...}).
H_Create(r) ==
    /\ hook[r] = "idle"
    /\ jobs' = Insert(r, NewJob(RecordingKey(r), "queued"))
    /\ hook' = [hook EXCEPT ![r] = "created"]
    /\ UNCHANGED <<proxy, entries, events, run, store, retry, del, adm, nextAuto,
                   nextUuid, faults, crashes>>

\* uploadQueue.add("upload-job", {jobId, localVideo, key, lessonId, ...}).
H_Enqueue(r) ==
    /\ hook[r] = "created"
    /\ entries' = AddAuto(UQ, NewEntry(r, RecordingKey(r), "upload",
                                       DefaultAttempts))
    /\ nextAuto' = [nextAuto EXCEPT ![UQ] = @ + 1]
    /\ hook' = [hook EXCEPT ![r] = "done"]
    /\ UNCHANGED <<proxy, jobs, events, run, store, retry, del, adm, nextUuid,
                   faults, crashes>>

----------------------------------------------------------------------------
\* workers/uploadWorker.js: processUpload on an entry of 'upload-queue'.

UP == "up"

UP_Claim(k) ==
    /\ k[1] = UQ
    /\ Claim(UP, k, "put")
    /\ UNCHANGED <<proxy, jobs, store, retry, del, adm, hook, nextAuto, nextUuid,
                   faults, crashes>>

\* uploadToWasabi(localVideo, key); the lesson's videoUrl. None of it
\* touches the Job.
UP_Put ==
    /\ run[UP].pc = "put"
    /\ run' = [run EXCEPT ![UP].pc = "hook"]
    /\ UNCHANGED <<proxy, jobs, entries, events, store, retry, del, adm, hook,
                   nextAuto, nextUuid, faults, crashes>>

\* axios.post(.../api/lessons/webhook/update-video), which answers.
UP_Webhook ==
    /\ run[UP].pc = "hook"
    /\ run' = [run EXCEPT ![UP].pc = "add"]
    /\ UNCHANGED <<proxy, jobs, entries, events, store, retry, del, adm, hook,
                   nextAuto, nextUuid, faults, crashes>>

\* The same with the webhook throwing: caught and logged.
UP_WebhookFails ==
    /\ run[UP].pc = "hook"
    /\ faults < MaxFaults
    /\ faults' = faults + 1
    /\ run' = [run EXCEPT ![UP].pc = "add"]
    /\ UNCHANGED <<proxy, jobs, entries, events, store, retry, del, adm, hook,
                   nextAuto, nextUuid, crashes>>

\* transcodeQueue.add('transcode-fast', {...job.data, transcodeType: 'fast',
\* input, localFilePath}): no jobId option, no attempts option.
UP_Add ==
    /\ run[UP].pc = "add"
    /\ entries' = AddAuto(FQ, NewEntry(JobOf(UP), KeyOf(UP), "fast",
                                       DefaultAttempts))
    /\ nextAuto' = [nextAuto EXCEPT ![FQ] = @ + 1]
    /\ run' = [run EXCEPT ![UP].pc = "return"]
    /\ UNCHANGED <<proxy, jobs, events, store, retry, del, adm, hook, nextUuid,
                   faults, crashes>>

UP_Return ==
    /\ run[UP].pc = "return"
    /\ MoveToCompleted(run[UP].e, NoUrl)
    /\ run' = [run EXCEPT ![UP] = Idle]
    /\ UNCHANGED <<proxy, jobs, store, retry, del, adm, hook, nextAuto, nextUuid,
                   faults, crashes>>

\* The upload or the add throws: logged and rethrown, the entry fails.
UP_Throws ==
    /\ run[UP].pc \in {"put", "add"}
    /\ faults < MaxFaults
    /\ faults' = faults + 1
    /\ MoveToFailed(run[UP].e)
    /\ run' = [run EXCEPT ![UP] = Idle]
    /\ UNCHANGED <<proxy, jobs, store, retry, del, adm, hook, nextAuto, nextUuid,
                   crashes>>

----------------------------------------------------------------------------
\* workers/uploadWorker.js: processJob, run by the worker of 'transcode-fast'
\* and by the worker of 'transcode-background'. The entries carry lessonId
\* and localFilePath, so nothing is downloaded; neither queue has an event
\* listener, so job.updateProgress reaches no Job.

BurstWorkers == {"fast", "bg"}
QueueOf(w) == IF w \in {"fast", "fast2"} THEN FQ ELSE BQ

UW_Claim(w, k) ==
    /\ k[1] = QueueOf(w)
    /\ Claim(w, k, "status")
    /\ UNCHANGED <<proxy, jobs, store, retry, del, adm, hook, nextAuto, nextUuid,
                   faults, crashes>>

\* Job.findOneAndUpdate({jobId}, {status: 'processing', startedAt}).
UW_SetProcessing(w) ==
    /\ run[w].pc = "status"
    /\ jobs' = FindOneAndUpdate(JobOf(w), [f \in {"status"} |-> "processing"])
    /\ run' = [run EXCEPT ![w].pc = "prepare"]
    /\ UNCHANGED <<proxy, entries, events, store, retry, del, adm, hook, nextAuto,
                   nextUuid, faults, crashes>>

\* The lesson's transcodingStatus; mkdir tempDir; the local input file;
\* job.updateProgress(5) and (10).
UW_Prepare(w) ==
    /\ run[w].pc = "prepare"
    /\ run' = [run EXCEPT ![w].pc = "transcode", ![w].tmp = TRUE]
    /\ UNCHANGED <<proxy, jobs, entries, events, store, retry, del, adm, hook,
                   nextAuto, nextUuid, faults, crashes>>

\* transcodeVideo(inputVideoPath, tempDir, {...}); job.updateProgress(70).
UW_Transcode(w) ==
    /\ run[w].pc = "transcode"
    /\ run' = [run EXCEPT ![w].pc = "upload"]
    /\ UNCHANGED <<proxy, jobs, entries, events, store, retry, del, adm, hook,
                   nextAuto, nextUuid, faults, crashes>>

\* The options processJob passes for its stage.
UWOptions(type) ==
    IF type = "fast"
    THEN [target |-> {"360p"}, playlist |-> {"360p"}]
    ELSE [target |-> {"480p", "720p", "1080p"}, playlist |-> Resolutions]

\* uploadFolderToS3(tempDir, hlsPrefix); job.updateProgress(95).
UW_Upload(w) ==
    /\ run[w].pc = "upload"
    /\ store' = store \cup {ObjKey(HlsPrefix(KeyOf(w)), f) :
                              f \in TranscodeVideo(UWOptions(TypeOf(w)))}
    /\ run' = [run EXCEPT ![w].pc = "notify"]
    /\ UNCHANGED <<proxy, jobs, entries, events, retry, del, adm, hook, nextAuto,
                   nextUuid, faults, crashes>>

\* The lesson's hlsUrl and the update-video webhook, which answers.
UW_Notify(w) ==
    /\ run[w].pc = "notify"
    /\ run' = [run EXCEPT ![w].pc = "finalize"]
    /\ UNCHANGED <<proxy, jobs, entries, events, store, retry, del, adm, hook,
                   nextAuto, nextUuid, faults, crashes>>

\* The webhook throwing with nothing to catch it: the exception reaches
\* the failure handler of processJob.
UW_NotifyWebhookRaises(w) ==
    /\ run[w].pc = "notify"
    /\ faults < MaxFaults
    /\ faults' = faults + 1
    /\ run' = [run EXCEPT ![w].pc = "catch"]
    /\ UNCHANGED <<proxy, jobs, entries, events, store, retry, del, adm, hook,
                   nextAuto, nextUuid, crashes>>

\* The same with the webhook throwing: caught and logged.
UW_NotifyWebhookFails(w) ==
    /\ run[w].pc = "notify"
    /\ faults < MaxFaults
    /\ faults' = faults + 1
    /\ run' = [run EXCEPT ![w].pc = "finalize"]
    /\ UNCHANGED <<proxy, jobs, entries, events, store, retry, del, adm, hook,
                   nextAuto, nextUuid, crashes>>

\* Job.findOneAndUpdate({jobId}, {status: 'completed', progress: 100,
\* completedAt, hlsPrefix, hlsStreamUrl}).
UW_Finalize(w) ==
    /\ run[w].pc = "finalize"
    /\ jobs' = FindOneAndUpdate(JobOf(w),
                  [f \in {"status", "progress", "url"} |->
                      CASE f = "status" -> "completed"
                        [] f = "progress" -> 100
                        [] f = "url" -> UWStreamUrl(HlsPrefix(KeyOf(w)))])
    /\ run' = [run EXCEPT ![w].pc =
                  IF TypeOf(w) = "fast" THEN "sibling" ELSE "return"]
    /\ UNCHANGED <<proxy, entries, events, store, retry, del, adm, hook, nextAuto,
                   nextUuid, faults, crashes>>

\* const newJobId = uuid(); Job.create({jobId: newJobId, originalFileName,
\* rawVideoKey, status: 'queued', resolutions}).
UW_CreateSibling(w) ==
    /\ run[w].pc = "sibling"
    /\ nextUuid < MaxSiblings
    /\ nextUuid' = nextUuid + 1
    /\ jobs' = Insert(<<"s", nextUuid + 1>>, NewJob(KeyOf(w), "queued"))
    /\ run' = [run EXCEPT ![w].pc = "enqueue", ![w].sib = <<"s", nextUuid + 1>>]
    /\ UNCHANGED <<proxy, entries, events, store, retry, del, adm, hook, nextAuto,
                   faults, crashes>>

\* queue.add('transcode-background', {...job.data, jobId: newJobId,
\* transcodeType: 'background'}): no jobId option, no attempts option.
UW_EnqueueSibling(w) ==
    /\ run[w].pc = "enqueue"
    /\ entries' = AddAuto(BQ, NewEntry(run[w].sib, KeyOf(w), "background",
                                       DefaultAttempts))
    /\ nextAuto' = [nextAuto EXCEPT ![BQ] = @ + 1]
    /\ run' = [run EXCEPT ![w].pc = "return"]
    /\ UNCHANGED <<proxy, jobs, events, store, retry, del, adm, hook, nextUuid,
                   faults, crashes>>

\* return { success: true, hlsStreamUrl }; finally removes tempDir.
UW_Return(w) ==
    /\ run[w].pc = "return"
    /\ ~run[w].lost
    /\ MoveToCompleted(run[w].e, UWStreamUrl(HlsPrefix(KeyOf(w))))
    /\ run' = [run EXCEPT ![w] = Idle]
    /\ UNCHANGED <<proxy, jobs, store, retry, del, adm, hook, nextAuto, nextUuid,
                   faults, crashes>>

\* An exception that is logged and passed over: processJob goes on to its
\* completed update.
UW_ThrowsSwallowed(w) ==
    /\ run[w].pc \in {"transcode", "upload", "sibling", "enqueue"}
    /\ faults < MaxFaults
    /\ faults' = faults + 1
    /\ run' = [run EXCEPT ![w].pc =
                  IF run[w].pc \in {"transcode", "upload"} THEN "finalize"
                  ELSE "return"]
    /\ UNCHANGED <<proxy, jobs, entries, events, store, retry, del, adm, hook,
                   nextAuto, nextUuid, crashes>>

\* An exception in transcode, upload, Job.create or queue.add.
UW_Throws(w) ==
    /\ run[w].pc \in {"transcode", "upload", "sibling", "enqueue"}
    /\ faults < MaxFaults
    /\ faults' = faults + 1
    /\ run' = [run EXCEPT ![w].pc = "catch"]
    /\ UNCHANGED <<proxy, jobs, entries, events, store, retry, del, adm, hook,
                   nextAuto, nextUuid, crashes>>

\* catch: Job.findOneAndUpdate({jobId}, {status: 'failed', failedAt,
\* $inc: {attempts: 1}, error}); the lesson's transcodingStatus.
UW_Catch(w) ==
    /\ run[w].pc = "catch"
    /\ jobs' = FailUpdate(JobOf(w), "worker")
    /\ run' = [run EXCEPT ![w].pc = "throw"]
    /\ UNCHANGED <<proxy, entries, events, store, retry, del, adm, hook, nextAuto,
                   nextUuid, faults, crashes>>

\* throw with finally skipped: the directory of the run stays on disk.
UW_RethrowNoFinally(w) ==
    /\ run[w].pc = "throw"
    /\ MoveToFailed(run[w].e)
    /\ run' = [run EXCEPT ![w] = [Idle EXCEPT !.tmp = run[w].tmp]]
    /\ UNCHANGED <<proxy, jobs, store, retry, del, adm, hook, nextAuto, nextUuid,
                   faults, crashes>>

\* throw error; finally removes tempDir; the queue counts the attempt.
UW_Rethrow(w) ==
    /\ run[w].pc = "throw"
    /\ ~run[w].lost
    /\ MoveToFailed(run[w].e)
    /\ run' = [run EXCEPT ![w] = Idle]
    /\ UNCHANGED <<proxy, jobs, store, retry, del, adm, hook, nextAuto, nextUuid,
                   faults, crashes>>

----------------------------------------------------------------------------
VTKeys == {<<VT, j>> : j \in UploadIds}

Admission == \E j \in UploadIds : A_Save(j) \/ A_Enqueue(j) \/ A_EnqueueThrows(j)

RetryApi ==
    \E h \in 1..MaxRetryCalls :
        \/ \E j \in UploadIds : R_Read(h, j)
        \/ R_Update(h)
        \/ R_Enqueue(h)
        \/ R_EnqueueThrows(h)

DeleteApi == (\E j \in UploadIds : D_Read(j)) \/ D_Delete \/ D_DeleteThrows

TranscodeWorker ==
    \/ TW_SetProcessing
    \/ TW_Progress5
    \/ TW_Download
    \/ TW_Progress10
    \/ TW_Transcode
    \/ TW_Progress70
    \/ TW_Upload
    \/ TW_Progress95
    \/ TW_Finalize
    \/ TW_Return
    \/ TW_Throws
    \/ TW_Catch
    \/ TW_Rethrow

Mirror == OnActive \/ OnProgress \/ OnCompleted \/ OnFailed

QueueSteps == \E k \in VTKeys : TW_Claim(k) \/ Promote(k)

Stalls == Crash(TW) \/ (\E k \in VTKeys : StallCheck(k)) \/ OnStalled

Core == Admission \/ QueueSteps \/ TranscodeWorker \/ Mirror

\* The upload API, the queue, its worker and the mirror, with worker crashes.
Next == Core \/ Stalls

Spec == Init /\ [][Next]_vars

\* The same without crashes, with concurrent retry requests.
NextRetry == Core \/ RetryApi

SpecRetry == Init /\ [][NextRetry]_vars

\* The same without crashes, with a delete request.
NextDelete == Core \/ DeleteApi

SpecDelete == Init /\ [][NextDelete]_vars

Webhook == \E r \in RecordingIds : H_Create(r) \/ H_Enqueue(r)

UploadWorker ==
    \/ \E k \in DOMAIN entries : UP_Claim(k)
    \/ UP_Put
    \/ UP_Webhook
    \/ UP_WebhookFails
    \/ UP_Add
    \/ UP_Return
    \/ UP_Throws

BurstWorker ==
    \E w \in BurstWorkers :
        \/ \E k \in DOMAIN entries : UW_Claim(w, k)
        \/ UW_SetProcessing(w)
        \/ UW_Prepare(w)
        \/ UW_Transcode(w)
        \/ UW_Upload(w)
        \/ UW_Notify(w)
        \/ UW_NotifyWebhookFails(w)
        \/ UW_Finalize(w)
        \/ UW_CreateSibling(w)
        \/ UW_EnqueueSibling(w)
        \/ UW_Return(w)
        \/ UW_Throws(w)
        \/ UW_Catch(w)
        \/ UW_Rethrow(w)

BurstStalls ==
    \/ \E w \in BurstWorkers \cup {UP} : Crash(w)
    \/ \E k \in DOMAIN entries : StallCheck(k)

\* The recording pipeline: webhook, upload worker, fast and background
\* workers, with worker crashes.
NextBurst == Webhook \/ UploadWorker \/ BurstWorker \/ BurstStalls

SpecBurst == Init /\ [][NextBurst]_vars

\* The steps a running worker takes when nothing goes wrong around it.
UploadSteps ==
    \/ \E k \in DOMAIN entries : UP_Claim(k)
    \/ UP_Put
    \/ UP_Webhook
    \/ UP_Add
    \/ UP_Return

BurstSteps(w) ==
    \/ \E k \in DOMAIN entries : UW_Claim(w, k)
    \/ UW_SetProcessing(w)
    \/ UW_Prepare(w)
    \/ UW_Transcode(w)
    \/ UW_Upload(w)
    \/ UW_Notify(w)
    \/ UW_Finalize(w)
    \/ UW_CreateSibling(w)
    \/ UW_EnqueueSibling(w)
    \/ UW_Return(w)
    \/ UW_Catch(w)
    \/ UW_Rethrow(w)

\* The recording pipeline with its scheduling: the webhook handler runs to
\* its end, every worker process keeps taking steps while it has one to take,
\* and the queue's stall check keeps running. Crashes and failing calls are
\* possible but never required.
FairSpecBurst ==
    /\ SpecBurst
    /\ WF_vars(Webhook)
    /\ WF_vars(UploadSteps)
    /\ \A w \in BurstWorkers : WF_vars(BurstSteps(w))
    /\ WF_vars(\E k \in DOMAIN entries : StallCheck(k))

----------------------------------------------------------------------------
\* The claims.

\* C1: once a Job's status is completed or failed, no step writes another
\* value to it; the Job leaves the terminal state only by being deleted.
C1_TerminalIsFinal ==
    [][\A j \in DOMAIN jobs :
          jobs[j].status \in Terminal =>
              (j \notin DOMAIN jobs' \/ jobs'[j].status = jobs[j].status)]_vars

\* C2: in every reachable state, every Job has attempts <= maxAttempts.
C2_AttemptsBounded ==
    \A j \in DOMAIN jobs : jobs[j].attempts <= jobs[j].maxAttempts

\* C3: a completed fast-stage Job whose fast entry has come to rest has
\* exactly one background sibling Job (same rawVideoKey) and exactly one
\* background queue entry for it.
Siblings(key) == {j \in DOMAIN jobs : j[1] = "s" /\ jobs[j].key = key}
SiblingEntries(key) ==
    {k \in DOMAIN entries : k[1] = BQ /\ entries[k].key = key}
FastEntries(r) ==
    {k \in DOMAIN entries : k[1] = FQ /\ entries[k].jobId = r}
FastAtRest(r) ==
    /\ FastEntries(r) # {}
    /\ \A k \in FastEntries(r) : entries[k].state \in {"completed", "failed"}
C3_ExactlyOneSibling ==
    \A r \in RecordingIds :
        (Exists(r) /\ jobs[r].status = "completed" /\ FastAtRest(r)) =>
            /\ Cardinality(Siblings(jobs[r].key)) = 1
            /\ Cardinality(SiblingEntries(jobs[r].key)) = 1

\* C4: under fair scheduling every background sibling Job a worker creates
\* eventually reaches status completed or failed (checked for the runs in
\* which no call to the encoder, the store or the queue fails).
SiblingIds == {<<"s", n>> : n \in 1..MaxSiblings}
C4_SiblingsTerminate ==
    \A j \in SiblingIds :
        Exists(j) ~> ((Exists(j) /\ jobs[j].status \in Terminal) \/ faults > 0)

\* C5: the stored progress of a Job never decreases, and a Job that is
\* created starts at progress 0.
C5_ProgressNeverDecreases ==
    [][/\ \A j \in DOMAIN jobs \cap DOMAIN jobs' :
             jobs'[j].progress >= jobs[j].progress
       /\ \A j \in DOMAIN jobs' \ DOMAIN jobs : jobs'[j].progress = 0]_vars

\* C6: when the mirror applies an 'active' or a 'progress' event to a Job
\* whose status is completed or failed, the Job's status and progress stay
\* as they are.
C6_LateEventsIgnored ==
    [][\A j \in DOMAIN jobs :
          (/\ jobs[j].status \in Terminal
           /\ events # <<>>
           /\ Head(events).type \in {"active", "progress"}
           /\ Head(events).id = j
           /\ events' = Tail(events)
           /\ j \in DOMAIN jobs')
          => (/\ jobs'[j].status = jobs[j].status
              /\ jobs'[j].progress = jobs[j].progress)]_vars

\* C7: in every reachable state, a Job whose hlsStreamUrl is set has its
\* master playlist {output_prefix}/master.m3u8 in the object store.
C7_MasterExists ==
    \A j \in DOMAIN jobs :
        jobs[j].url # NoUrl =>
            ObjKey(HlsPrefix(jobs[j].key), MasterFile) \in store

\* C8: every entry of the admission, fast and background queues has as its
\* identifier the jobId of exactly one Job record.
C8_EntryIdIsJobId ==
    \A k \in DOMAIN entries :
        k[1] \in {VT, FQ, BQ} =>
            Cardinality({j \in DOMAIN jobs : j = k[2]}) = 1

\* C9: of two retry requests for the same failed Job that are in flight
\* together and whose calls to the store and the queue all return, exactly
\* one answers 200 and the other is rejected.
C9_OneRetryWins ==
    \A h \in 1..MaxRetryCalls : \A g \in 1..MaxRetryCalls :
        (/\ h # g
         /\ retry[h].pc = "done" /\ retry[g].pc = "done"
         /\ retry[h].j = retry[g].j
         /\ retry[h].overlap
         /\ retry[h].resp # 500 /\ retry[g].resp # 500)
        => \/ (retry[h].resp = 200 /\ retry[g].resp \in {400, 409})
           \/ (retry[g].resp = 200 /\ retry[h].resp \in {400, 409})

\* C10: a Job record whose status is processing is not deleted.
C10_NoDeleteWhileProcessing ==
    [][\A j \in DOMAIN jobs :
          jobs[j].status = "processing" => j \in DOMAIN jobs']_vars

C12_RetryContract ==
    [][\A h \in 1..MaxRetryCalls :
        /\ (retry[h].pc = "idle" /\ retry'[h].pc # "idle"
            /\ Exists(retry'[h].j)) =>
              IF \/ jobs[retry'[h].j].status # "failed"
                 \/ jobs[retry'[h].j].attempts >= jobs[retry'[h].j].maxAttempts
              THEN /\ retry'[h].pc = "done" /\ retry'[h].resp = 400
                   /\ jobs' = jobs /\ entries' = entries
              ELSE retry'[h].pc = "checked"
        /\ (retry[h].pc = "checked" /\ retry'[h].pc = "updated"
            /\ retry[h].j \in DOMAIN jobs') =>
              jobs'[retry[h].j].status = "queued"
        /\ (retry[h].resp # 200 /\ retry'[h].resp = 200) =>
              /\ entries' # entries
              /\ <<VT, retry[h].j>> \in DOMAIN entries'
              /\ entries'[<<VT, retry[h].j>>].state = "waiting"]_vars

\* C13: addTranscodeJob with a jobId the queue already holds replaces an
\* entry that is completed or failed by a fresh waiting one, and is rejected,
\* leaving the queue as it is, when the entry is waiting, delayed or active.
C13_EnqueueReusedId ==
    [][\A h \in 1..MaxRetryCalls :
        (/\ retry[h].pc = "updated" /\ retry'[h].pc = "done"
         /\ HasEntry(VT, retry[h].j)) =>
            IF entries[<<VT, retry[h].j>>].state \in {"completed", "failed"}
            THEN retry'[h].resp = 200 =>
                    entries'[<<VT, retry[h].j>>] =
                        NewEntry(retry[h].j, retry[h].key, "unset",
                                 QueueAttempts)
            ELSE retry'[h].resp # 200 /\ entries' = entries]_vars

\* C14: each time the stall check finds an active entry whose lock has
\* lapsed, the entry's stall count goes up by one; up to the second time the
\* entry returns to waiting and its Job is reset to queued (by the handler
\* of the 'stalled' event), the next time it is failed and its Job becomes
\* failed (by the handler of the 'failed' event). For every transcode queue.
Mirrored(type, j) ==
    /\ Len(events') = Len(events) + 1
    /\ events'[Len(events')].type = type
    /\ events'[Len(events')].id = j

C14_StallHandling ==
    [][\A k \in DOMAIN entries :
        (/\ k[1] \in {VT, FQ, BQ}
         /\ entries[k].state = "active" /\ ~entries[k].locked
         /\ entries'[k] # entries[k]) =>
            /\ entries'[k].stalled = entries[k].stalled + 1
            /\ IF entries[k].stalled < 2
               THEN /\ entries'[k].state = "waiting"
                    /\ Mirrored("stalled", entries[k].jobId)
               ELSE /\ entries'[k].state = "failed"
                    /\ Mirrored("failed", entries[k].jobId)]_vars

FastJobs(key) == {r \in RecordingIds : Exists(r) /\ jobs[r].key = key}

C17_BackgroundAfterFast ==
    [][/\ \A j \in DOMAIN jobs' \ DOMAIN jobs :
            j[1] = "s" =>
                \A r \in FastJobs(jobs'[j].key) : jobs[r].status = "completed"
       /\ \A k \in DOMAIN entries' \ DOMAIN entries :
            k[1] = BQ =>
                \A r \in FastJobs(entries'[k].key) : jobs[r].status = "completed"
       /\ \A k \in DOMAIN entries :
            (k[1] = BQ /\ entries[k].state = "waiting") =>
                \A r \in FastJobs(entries[k].key) :
                    jobs[r].status \notin {"queued", "processing"}]_vars

\* C18: while no encoder output of a recording has reached the store (as
\* when the encoder fails on every attempt), no background sibling Job and
\* no background entry exists for it; and once each of its fast entries has
\* failed by an exception of processJob, the Job reads failed.
NoOutput(key) == \A o \in store : o[1] # HlsPrefix(key)

FastFailedByThrow(r) ==
    /\ FastEntries(r) # {}
    /\ \A k \in FastEntries(r) :
           entries[k].state = "failed" /\ entries[k].attemptsMade >= 1

C18_NoSiblingWithoutEncoding ==
    \A r \in RecordingIds :
        (Exists(r) /\ NoOutput(jobs[r].key)) =>
            /\ Siblings(jobs[r].key) = {}
            /\ SiblingEntries(jobs[r].key) = {}
            /\ FastFailedByThrow(r) => jobs[r].status = "failed"

C18_EncoderFailed ==
    \E r \in RecordingIds :
        /\ Exists(r) /\ NoOutput(jobs[r].key)
        /\ FastFailedByThrow(r)
        /\ jobs[r].status = "failed" /\ jobs[r].error = "worker"

\* Where a 'video-transcode' entry has come to rest as completed, with all
\* its events mirrored, after n failed attempts and without a stall.
DoneAfterFailures(j, n) ==
    /\ Exists(j) /\ HasEntry(VT, j)
    /\ entries[<<VT, j>>].state = "completed"
    /\ entries[<<VT, j>>].attemptsMade = n
    /\ entries[<<VT, j>>].stalled = 0
    /\ events = <<>>

\* C19 (as stated): a job whose first two attempts fail and whose third
\* succeeds ends completed with attempts = 3.
C19_ThirdAttemptCountsThree ==
    \A j \in UploadIds :
        DoneAfterFailures(j, 2) =>
            jobs[j].status = "completed" /\ jobs[j].attempts = 3

\* C19 (amended): such a job ends completed with attempts = 2, one for each
\* failed attempt.
C19_ThirdAttemptCountsTwo ==
    \A j \in UploadIds :
        DoneAfterFailures(j, 2) =>
            jobs[j].status = "completed" /\ jobs[j].attempts = 2

C19_SucceededOnThird == \E j \in UploadIds : DoneAfterFailures(j, 2)

\* Where a 'video-transcode' entry has come to rest as completed, with all
\* its events mirrored, after the worker running it died once and the entry
\* was run again, no call having thrown.
DoneAfterStall(j) ==
    /\ faults = 0
    /\ Exists(j) /\ HasEntry(VT, j)
    /\ entries[<<VT, j>>].state = "completed"
    /\ entries[<<VT, j>>].attemptsMade = 0
    /\ entries[<<VT, j>>].stalled = 1
    /\ events = <<>>

\* C20 (as stated): a job whose worker died once, and which was run again
\* to the end, ends completed with attempts = 2.
C20_RerunCountsTwo ==
    \A j \in UploadIds :
        DoneAfterStall(j) =>
            jobs[j].status = "completed" /\ jobs[j].attempts = 2

\* C20 (amended): such a job ends completed with attempts = 0, progress 100
\* and its hlsStreamUrl set.
C20_RerunCountsNone ==
    \A j \in UploadIds :
        DoneAfterStall(j) =>
            /\ jobs[j].status = "completed" /\ jobs[j].attempts = 0
            /\ jobs[j].progress = 100 /\ jobs[j].url # NoUrl

C20_RerunCompleted == \E j \in UploadIds : DoneAfterStall(j)

\* C21: each failed attempt of a job records the error on its Job and raises
\* Job.attempts by exactly one, the worker's update and the mirrored 'failed'
\* event taken together: with the worker out of the job, the events mirrored
\* and no stall, Job.attempts equals the number of attempts the queue has
\* counted as failed.
C21_OneCountPerFailure ==
    \A j \in UploadIds :
        (/\ Exists(j) /\ HasEntry(VT, j)
         /\ entries[<<VT, j>>].state \in {"delayed", "waiting", "failed"}
         /\ entries[<<VT, j>>].attemptsMade >= 1
         /\ entries[<<VT, j>>].stalled = 0
         /\ events = <<>>)
        => /\ jobs[j].error # "none"
           /\ jobs[j].attempts = entries[<<VT, j>>].attemptsMade

----------------------------------------------------------------------------
\* workers/uploadWorker.js: the exit paths of processJob, with an exception
\* possible at every step, in the failure handler and in the cleanup.

\* An exception in the processing update, in the lesson's status, in mkdir
\* or the progress calls (tempDir is assigned before mkdir runs, so it may or
\* may not be set), in the lesson's hlsUrl update or in the completed update.
UW_ThrowsEarly(w) ==
    /\ run[w].pc \in {"status", "prepare", "notify", "finalize"}
    /\ faults < MaxFaults
    /\ faults' = faults + 1
    /\ \E t \in BOOLEAN :
          run' = [run EXCEPT ![w].pc = "catch",
                             ![w].tmp = IF run[w].pc = "prepare" THEN t ELSE @]
    /\ UNCHANGED <<proxy, jobs, entries, events, store, retry, del, adm, hook,
                   nextAuto, nextUuid, crashes>>

\* The failed update inside the catch block throws itself: the Job is left
\* as it was and the new exception leaves processJob through finally.
UW_CatchThrows(w) ==
    /\ run[w].pc = "catch"
    /\ faults < MaxFaults
    /\ faults' = faults + 1
    /\ run' = [run EXCEPT ![w].pc = "throw"]
    /\ UNCHANGED <<proxy, jobs, entries, events, store, retry, del, adm, hook,
                   nextAuto, nextUuid, crashes>>

\* return with fs.rm failing in finally: caught and warned about, the
\* directory stays on disk (tmp of the idle worker) and the value is returned.
UW_ReturnCleanupFails(w) ==
    /\ run[w].pc = "return"
    /\ run[w].tmp
    /\ faults < MaxFaults
    /\ faults' = faults + 1
    /\ MoveToCompleted(run[w].e, UWStreamUrl(HlsPrefix(KeyOf(w))))
    /\ run' = [run EXCEPT ![w] = [Idle EXCEPT !.tmp = TRUE]]
    /\ UNCHANGED <<proxy, jobs, store, retry, del, adm, hook, nextAuto, nextUuid,
                   crashes>>

\* throw with fs.rm failing in finally: caught and warned about, the
\* exception of the try or catch block goes on to the queue.
UW_RethrowCleanupFails(w) ==
    /\ run[w].pc = "throw"
    /\ run[w].tmp
    /\ faults < MaxFaults
    /\ faults' = faults + 1
    /\ MoveToFailed(run[w].e)
    /\ run' = [run EXCEPT ![w] = [Idle EXCEPT !.tmp = TRUE]]
    /\ UNCHANGED <<proxy, jobs, store, retry, del, adm, hook, nextAuto, nextUuid,
                   crashes>>

ExitPaths ==
    \E w \in BurstWorkers :
        \/ UW_ThrowsEarly(w)
        \/ UW_CatchThrows(w)
        \/ UW_ReturnCleanupFails(w)
        \/ UW_RethrowCleanupFails(w)

\* The recording pipeline with exceptions everywhere and no process death.
NextExit == Webhook \/ UploadWorker \/ BurstWorker \/ ExitPaths

SpecExit == Init /\ [][NextExit]_vars

\* C22: whenever processJob returns or throws, the temporary directory of
\* the run is gone unless its removal itself failed, and the run's outcome
\* is the one its path decides (completed on return, one more failed attempt
\* on throw, the Job untouched by the exit) whether or not the removal failed.
C22_TempDirRemoved ==
    [][\A w \in BurstWorkers :
          (run[w].pc # "idle" /\ run'[w].pc = "idle")
          => /\ (faults' = faults => ~run'[w].tmp)
             /\ jobs' = jobs
             /\ IF run[w].pc = "return"
                THEN entries'[run[w].e].state = "completed"
                ELSE /\ run[w].pc = "throw"
                     /\ entries'[run[w].e].state \in {"failed", "delayed"}
                     /\ entries'[run[w].e].attemptsMade =
                            entries[run[w].e].attemptsMade + 1]_vars

\* The failure handler threw after the output was uploaded: the entry has
\* failed, the Job still reads processing, and the worker is out of the run
\* with no directory left.
C22_HandlerThrewAfterUpload ==
    /\ store # {}
    /\ run["fast"] = Idle
    /\ \E k \in DOMAIN entries :
          /\ k[1] = FQ
          /\ entries[k].state = "failed"
          /\ Exists(entries[k].jobId)
          /\ jobs[entries[k].jobId].status = "processing"

\* C23: a failing webhook POST never changes a job's outcome: the step that
\* ends the webhook call of processJob or of processUpload, whether the call
\* answered or threw, goes on to the same next step (the completed update,
\* the add of the fast entry) and leaves Jobs, entries and stored objects as
\* they were.
C23_WebhookNeverFailsJob ==
    [][/\ \A w \in BurstWorkers :
             (run[w].pc = "notify" /\ run'[w].pc # "notify"
              /\ crashes' = crashes)
             => /\ run' = [run EXCEPT ![w].pc = "finalize"]
                /\ UNCHANGED <<jobs, entries, events, store, nextAuto,
                               nextUuid>>
       /\ (run[UP].pc = "hook" /\ run'[UP].pc # "hook" /\ crashes' = crashes)
             => /\ run' = [run EXCEPT ![UP].pc = "add"]
                /\ UNCHANGED <<jobs, entries, events, store, nextAuto,
                               nextUuid>>]_vars

\* A webhook call failed (no other exception lets the single attempt of an
\* entry go on, and the background stage has not started), and the fast Job
\* is completed with its stream URL and its background entry enqueued.
C23_CompletedDespiteWebhook ==
    /\ faults > 0
    /\ crashes = 0
    /\ run["bg"] = Idle
    /\ \E k \in DOMAIN entries :
          /\ k[1] = FQ
          /\ entries[k].state = "completed"
          /\ Exists(entries[k].jobId)
          /\ jobs[entries[k].jobId].status = "completed"
          /\ jobs[entries[k].jobId].url =
                 UWStreamUrl(HlsPrefix(entries[k].key))
    /\ \E b \in DOMAIN entries : b[1] = BQ /\ entries[b].state = "waiting"

\* The step in which the upload request for j answers 202.
Answers202(j) ==
    adm[j].pc # "done" /\ adm'[j].pc = "done" /\ adm'[j].resp = 202

RenditionsUnder(prefix) ==
    {o[2][1] : o \in {x \in store : x[1] = prefix /\ x[2] # MasterFile}}

\* C25: the fast stage encodes and uploads exactly the 360p rendition and
\* the background stage the other three: as long as no background entry
\* has been added for a recording, the only rendition under its output
\* prefix is 360p.
C25_FastStageOnly360p ==
    \A r \in RecordingIds :
        (\A k \in DOMAIN entries : k[1] # BQ)
        => RenditionsUnder(HlsPrefix(RecordingKey(r))) \subseteq {"360p"}

\* The keys uploadFolderToS3 puts for the run of worker w: every file of
\* tempDir under the run's hlsPrefix.
OutputKeys(w) ==
    {ObjKey(HlsPrefix(KeyOf(w)), f) :
        f \in TranscodeVideo(UWOptions(TypeOf(w)))}

\* C26: no object key is written twice, by the same Job or by two Jobs (a
\* fast Job and its background sibling included): none of the keys an upload
\* step puts is in the store already.
C26_KeysWrittenOnce ==
    [][\A w \in BurstWorkers :
          (run[w].pc = "upload" /\ run'[w].pc = "notify")
          => OutputKeys(w) \cap store = {}]_vars

\* C27: from the completion of the fast Job on, through every state of the
\* background stage, the master playlist of the recording is in the store
\* together with the variant playlist and the segments of the 360p
\* rendition it lists at least.
C27_PlayableFromFastCompletion ==
    \A r \in RecordingIds :
        (Exists(r) /\ jobs[r].status = "completed")
        => LET p == HlsPrefix(RecordingKey(r)) IN
             /\ ObjKey(p, MasterFile) \in store
             /\ ObjKey(p, <<"360p", "index.m3u8">>) \in store
             /\ ObjKey(p, <<"360p", "segment000.ts">>) \in store

----------------------------------------------------------------------------
\* The HLS proxy of the upload controller: proxyHlsPlaylist, proxyHlsMaster
\* and proxyHlsSegment. A playlist body is a sequence of tokens: "segment",
\* "p", ".ts" and "/index.m3u8" stand for those characters, "0" for any
\* digit, "#" for any other character that ends no line, LF for the line
\* feed (the regular expressions' m flag makes ^ and $ match around it).

MaxBody == 7           \* tokens of a playlist body

LF == "\n"
Digits == {"0"}
PlaylistAlphabet == {"segment", "0", ".ts", "#", LF}
MasterAlphabet == {"0", "p", "/index.m3u8", "#", LF}
Qualities == {"360p", "720p"}

\* The value standing for "no object under this key".
NoObject == <<"NoSuchKey">>

\* /^(segment\d+\.ts)$/gm and /^(\d+p)\/index\.m3u8$/gm: what precedes the
\* digits and what follows them.
Pattern(kind) ==
    IF kind = "playlist"
    THEN [pre |-> <<"segment">>, post |-> <<".ts">>]
    ELSE [pre |-> <<>>, post |-> <<"p", "/index.m3u8">>]

LineStart(b, i) == i = 1 \/ b[i - 1] = LF
LineEnd(b, i) == i = Len(b) + 1 \/ b[i] = LF

\* Whether the tokens of s stand in b from position i on.
HasAt(b, i, s) ==
    /\ i + Len(s) - 1 <= Len(b)
    /\ \A k \in 1..Len(s) : b[i + k - 1] = s[k]

\* \d+ is greedy: the number of digits from position i on.
RECURSIVE DigitsAt(_, _)
DigitsAt(b, i) ==
    IF i <= Len(b) /\ b[i] \in Digits THEN 1 + DigitsAt(b, i + 1) ELSE 0

\* The expression matching any occurrence, without ^ and $.
MatchLenAnywhere(kind, b, i) ==
    LET pat == Pattern(kind)
        d == DigitsAt(b, i + Len(pat.pre))
        n == Len(pat.pre) + d + Len(pat.post)
    IN IF /\ HasAt(b, i, pat.pre)
          /\ d >= 1
          /\ HasAt(b, i + Len(pat.pre) + d, pat.post)
       THEN n ELSE 0

\* The length of the match of the expression at position i, 0 if none.
MatchLen(kind, b, i) ==
    LET pat == Pattern(kind)
        d == DigitsAt(b, i + Len(pat.pre))
        n == Len(pat.pre) + d + Len(pat.post)
    IN IF /\ LineStart(b, i)
          /\ HasAt(b, i, pat.pre)
          /\ d >= 1
          /\ HasAt(b, i + Len(pat.pre) + d, pat.post)
          /\ LineEnd(b, i + n)
       THEN n ELSE 0

\* `${baseUrl}/api/upload/hls/${courseId}/${lessonId}/${videoId}/`
ProxyBase == "{baseUrl}/api/upload/hls/{courseId}/{lessonId}/{videoId}/"

\* A replacement that leaves a line the expression matches again.
ReplacementStillRelative(kind, q, m) == <<"0">> \o m

\* The replacement strings: `.../${quality}/$1` for a segment line and
\* `.../$1/playlist.m3u8` for a variant line, $1 being the match without
\* its "/index.m3u8".
Replacement(kind, q, m) ==
    IF kind = "playlist"
    THEN <<ProxyBase, q, "/">> \o m
    ELSE <<ProxyBase>> \o SubSeq(m, 1, Len(m) - 1) \o <<"/playlist.m3u8">>

\* String.prototype.replace with a g expression: one pass from left to
\* right, every match replaced, everything else copied.
RECURSIVE Replace(_, _, _, _)
Replace(kind, q, b, i) ==
    IF i > Len(b) THEN <<>>
    ELSE LET n == MatchLen(kind, b, i) IN
         IF n > 0
         THEN Replacement(kind, q, SubSeq(b, i, i + n - 1))
                  \o Replace(kind, q, b, i + n)
         ELSE <<b[i]>> \o Replace(kind, q, b, i + 1)

\* A request that has arrived: its kind, the quality in its path (the master
\* playlist has none) and what the store holds under its key.
Request(kind, q, o) ==
    [NoRequest EXCEPT !.pc = "request", !.kind = kind, !.q = q, !.obj = o]

\* The bodies an object of the request's key may have, by length.
ObjectsOf(kind, n) ==
    CASE kind = "playlist" -> [1..n -> PlaylistAlphabet]
      [] kind = "master" -> [1..n -> MasterAlphabet]
      [] kind = "segment" -> [1..n -> {"#"}]

PipelineVars == <<jobs, entries, events, run, store, retry, del, adm, hook,
                  nextAuto, nextUuid, faults, crashes>>

\* getObject answers; the rewritten playlist is sent.
P_Playlist ==
    /\ proxy.pc = "request" /\ proxy.kind = "playlist"
    /\ proxy.obj # NoObject
    /\ proxy' = [proxy EXCEPT !.pc = "done", !.status = 200, !.wrote = TRUE,
                              !.out = Replace("playlist", proxy.q, proxy.obj, 1)]
    /\ UNCHANGED PipelineVars

\* getObject answers; the rewritten master playlist is sent.
P_Master ==
    /\ proxy.pc = "request" /\ proxy.kind = "master"
    /\ proxy.obj # NoObject
    /\ proxy' = [proxy EXCEPT !.pc = "done", !.status = 200, !.wrote = TRUE,
                              !.out = Replace("master", proxy.q, proxy.obj, 1)]
    /\ UNCHANGED PipelineVars

\* The first call to the store (getObject, headObject for a segment) finds
\* no object, answered 404 by the proxy.
P_ObjectMissing404 ==
    /\ proxy.pc = "request"
    /\ proxy.obj = NoObject
    /\ proxy' = [proxy EXCEPT !.pc = "done", !.status = 404,
                              !.err = "NoSuchKey"]
    /\ UNCHANGED PipelineVars

\* The first call to the store (getObject, headObject for a segment) finds
\* no object: the catch block answers 500.
P_ObjectMissing ==
    /\ proxy.pc = "request"
    /\ proxy.obj = NoObject
    /\ proxy' = [proxy EXCEPT !.pc = "done", !.status = 500,
                              !.err = "NoSuchKey"]
    /\ UNCHANGED PipelineVars

\* The first call to the store fails otherwise: the same catch block.
P_StoreError ==
    /\ proxy.pc = "request"
    /\ proxy' = [proxy EXCEPT !.pc = "done", !.status = 500,
                              !.err = "upstream"]
    /\ UNCHANGED PipelineVars

\* headObject answers: the headers are set (not sent) and the stream opened.
P_SegmentHead ==
    /\ proxy.pc = "request" /\ proxy.kind = "segment"
    /\ proxy.obj # NoObject
    /\ proxy' = [proxy EXCEPT !.pc = "stream"]
    /\ UNCHANGED PipelineVars

\* s3Stream.pipe(res) to the end of the object.
P_SegmentStream ==
    /\ proxy.pc = "stream"
    /\ proxy' = [proxy EXCEPT !.pc = "done", !.status = 200, !.wrote = TRUE,
                              !.out = proxy.obj]
    /\ UNCHANGED PipelineVars

\* The stream's 'error' event: 500 if nothing has been sent yet, otherwise
\* the response stays as it is, cut short.
P_SegmentStreamError ==
    /\ proxy.pc = "stream"
    /\ \E sent \in 0..(Len(proxy.obj) - 1) :
          proxy' = [proxy EXCEPT !.pc = "done", !.err = "upstream",
                                 !.status = IF sent = 0 THEN 500 ELSE 200,
                                 !.wrote = sent > 0,
                                 !.out = SubSeq(proxy.obj, 1, sent)]
    /\ UNCHANGED PipelineVars

NextProxy ==
    \/ P_Playlist
    \/ P_Master
    \/ P_ObjectMissing
    \/ P_StoreError
    \/ P_SegmentHead
    \/ P_SegmentStream
    \/ P_SegmentStreamError

\* One proxy request, of any kind, on any object.
InitProxy ==
    /\ InitPipeline
    /\ \E kind \in {"playlist", "master", "segment"}, n \in 0..MaxBody :
          \E q \in (IF kind = "master" THEN {"none"} ELSE Qualities),
             o \in ObjectsOf(kind, n) \cup {NoObject} :
                proxy = Request(kind, q, o)

SpecProxy == InitProxy /\ [][NextProxy]_vars

\* A body as the sequence of its lines, the line feeds left out.
RECURSIVE SplitLines(_)
SplitLines(b) ==
    IF \A i \in 1..Len(b) : b[i] # LF THEN <<b>>
    ELSE LET i == CHOOSE k \in 1..Len(b) :
                      b[k] = LF /\ \A h \in 1..(k - 1) : b[h] # LF
         IN <<SubSeq(b, 1, i - 1)>> \o SplitLines(SubSeq(b, i + 1, Len(b)))

RECURSIVE JoinLines(_)
JoinLines(ls) ==
    IF Len(ls) = 1 THEN ls[1] ELSE ls[1] \o <<LF>> \o JoinLines(Tail(ls))

\* A line that is exactly segment<digits>.ts.
IsSegmentLine(l) ==
    /\ Len(l) >= 3
    /\ l[1] = "segment"
    /\ l[Len(l)] = ".ts"
    /\ \A k \in 2..(Len(l) - 1) : l[k] \in Digits

C29_MasterRewriteIdempotent ==
    (proxy.pc = "done" /\ proxy.kind = "master" /\ proxy.status = 200)
    => Replace("master", proxy.q, proxy.out, 1) = proxy.out

\* A master playlist with two variant lines has been served rewritten.
C29_TwoVariantsServed ==
    /\ proxy.pc = "done" /\ proxy.kind = "master" /\ proxy.status = 200
    /\ proxy.obj = <<"0", "p", "/index.m3u8", LF, "0", "p", "/index.m3u8">>
    /\ proxy.out = <<ProxyBase, "0", "p", "/playlist.m3u8", LF,
                     ProxyBase, "0", "p", "/playlist.m3u8">>

C31_FailedOnlyWhenExhausted ==
    \A j \in UploadIds :
        (Exists(j) /\ jobs[j].status = "failed" /\ HasEntry(VT, j))
        => entries[<<VT, j>>].state = "failed"

\* The renditions the stage of a Job of the recording pipeline is to encode:
\* the fast stage for a recording's Job, the background stage for a sibling.
StageTargets(j) ==
    UWOptions(IF j[1] = "s" THEN "background" ELSE "fast").target

\* C32: a completed Job has resolutions[r].status completed for every
\* rendition r of its stage, and every rendition marked completed has its
\* variant playlist {output_prefix}/{r}/index.m3u8 in the store.
C32_EncodedResolutionsCompleted ==
    \A j \in DOMAIN jobs :
        jobs[j].status = "completed"
        => /\ \A r \in StageTargets(j) : jobs[j].resolutions[r] = "completed"
           /\ \A r \in Resolutions :
                 jobs[j].resolutions[r] = "completed"
                 => ObjKey(HlsPrefix(jobs[j].key), <<r, "index.m3u8">>)
                        \in store

\* C33: a Job that reads queued has a live entry (waiting, delayed or
\* active) under its jobId on the queue its worker consumes, once the
\* request that queued it has answered: after admission and after a manual
\* retry, also when the enqueue threw or was ignored for a duplicate id.
C33_QueuedHasLiveEntry ==
    \A j \in UploadIds :
        (/\ Exists(j)
         /\ jobs[j].status = "queued"
         /\ adm[j].pc = "done"
         /\ \A h \in 1..MaxRetryCalls : retry[h].pc \in {"idle", "done"})
        => /\ HasEntry(VT, j)
           /\ entries[<<VT, j>>].state \in {"waiting", "delayed", "active"}

----------------------------------------------------------------------------
\* Two worker processes on 'transcode-fast' and locks that expire under a
\* running processor (the renewal did not reach the queue in lockDuration).

\* The lock of the entry a worker runs expires: the processor goes on, the
\* entry is active without lock. Counted with the crashes.
LockLost(w) ==
    /\ run[w].pc # "idle"
    /\ ~run[w].lost
    /\ entries[run[w].e].locked
    /\ crashes < MaxCrashes
    /\ crashes' = crashes + 1
    /\ entries' = [entries EXCEPT ![run[w].e].locked = FALSE]
    /\ run' = [run EXCEPT ![w].lost = TRUE]
    /\ UNCHANGED <<proxy, jobs, events, store, retry, del, adm, hook,
                   nextAuto, nextUuid, faults>>

\* processJob returns without the lock: the queue refuses to complete the
\* entry (missing lock) and leaves it as it is.
UW_ReturnNoLock(w) ==
    /\ run[w].pc = "return"
    /\ run[w].lost
    /\ run' = [run EXCEPT ![w] = Idle]
    /\ UNCHANGED <<proxy, jobs, entries, events, store, retry, del, adm,
                   hook, nextAuto, nextUuid, faults, crashes>>

LockWorkers == {"fast", "fast2", "bg"}

LockWorker ==
    \E w \in LockWorkers :
        \/ \E k \in DOMAIN entries : UW_Claim(w, k)
        \/ UW_SetProcessing(w)
        \/ UW_Prepare(w)
        \/ UW_Transcode(w)
        \/ UW_Upload(w)
        \/ UW_Notify(w)
        \/ UW_Finalize(w)
        \/ UW_CreateSibling(w)
        \/ UW_EnqueueSibling(w)
        \/ UW_Return(w)
        \/ UW_ReturnNoLock(w)
        \/ LockLost(w)

NextLock ==
    \/ Webhook
    \/ UploadWorker
    \/ LockWorker
    \/ \E k \in DOMAIN entries : StallCheck(k)

SpecLock == Init /\ [][NextLock]_vars

\* C34: at no time are two workers inside processJob for the same jobId,
\* whatever the automatic retries and stall recoveries: two running workers
\* run different Jobs, and so write under their prefix one at a time.
C34_OneRunPerJob ==
    \A w1, w2 \in LockWorkers :
        (w1 # w2 /\ run[w1].pc # "idle" /\ run[w2].pc # "idle")
        => JobOf(w1) # JobOf(w2)

\* C35: once a queued Job has been deleted, no worker processes an entry on
\* its behalf: every entry a worker takes from the queue has its Job record
\* in the store.
C35_ClaimedEntryHasJob ==
    [][(run[TW].pc = "idle" /\ run'[TW].pc # "idle")
       => Exists(entries[run'[TW].e].jobId)]_vars

\* C36: in every state, a Job that reads completed has progress 100 and its
\* hlsStreamUrl set, in whatever order the worker's completed update and
\* the mirrored progress and completed events reach the Job store.
C36_CompletedIsWhole ==
    \A j \in DOMAIN jobs :
        jobs[j].status = "completed"
        => (jobs[j].progress = 100 /\ jobs[j].url # NoUrl)

\* C37: in every state, a Job that reads completed has no error recorded:
\* the error of an earlier failed attempt or of a stalled event is cleared
\* when the job completes.
C37_CompletedHasNoError ==
    \A j \in DOMAIN jobs :
        jobs[j].status = "completed" => jobs[j].error = "none"


\* C39: when POST /v1/jobs/{id}/retry answers 500 because addTranscodeJob
\* throws, the Job is as the request found it: its status is still failed
\* and its error is still recorded.
C39_Retry500LeavesJobFailed ==
    [][\A h \in DOMAIN retry :
          (/\ retry[h].pc = "updated"
           /\ retry'[h].resp = 500
           /\ Exists(retry[h].j))
          => /\ jobs'[retry[h].j].status = "failed"
             /\ jobs'[retry[h].j].error # "none"]_vars

----------------------------------------------------------------------------
\* From a stored hlsStreamUrl back to an object key. A path is a sequence of
\* segments; a segment is a pair <<name, n>>.

\* The segments of a source key without its extension:
\* raw-videos/{uuid}-{name}  and  recordings/{courseId}/{lessonId}/{file}.
SourcePath(key) ==
    IF key[1] = "raw-videos"
    THEN << <<"raw-videos", 0>>, <<"file", key[2]>> >>
    ELSE << <<"recordings", 0>>, <<"courseId", key[2]>>,
            <<"lessonId", key[2]>>, <<"file", key[2]>> >>

\* The segments of the prefix or URL path the model keeps as a pair: what
\* HlsPrefix, UWStreamUrl and TWStreamUrl make of the key's segments.
Segments(p, key) ==
    IF p[1] = "recordings" THEN SourcePath(key) ELSE Tail(SourcePath(key))

NoRoute == [handler |-> "none", params |-> << >>]

\* The router's match of GET /api/upload/hls/{path}/master.m3u8, routes
\* tried in the order of their registration; a parameter matches one
\* segment.
Route(path) ==
    IF Len(path) = 1
    THEN [handler |-> "proxyHlsMaster", params |-> <<path[1]>>]
    ELSE IF Len(path) = 2
    THEN [handler |-> "proxyHlsSegment", params |-> path]
    ELSE NoRoute

\* proxyHlsMaster's key:
\* `recordings/${courseId = "streamaaa"}/${lessonId}/${videoId}/master.m3u8`
\* with req.params = { videoId }.
ProxyMasterKey(params) ==
    << <<"recordings", 0>>, <<"streamaaa", 0>>, <<"undefined", 0>>,
       params[1], <<"master.m3u8", 0>> >>

\* The key uploadFolderToS3 gives master.m3u8: `${hlsPrefix}/master.m3u8`.
UploadedMasterKey(key) ==
    Segments(HlsPrefix(key), key) \o << <<"master.m3u8", 0>> >>

\* C38: for every completed Job, a GET of its stored hlsStreamUrl is routed
\* to proxyHlsMaster and the key the handler reads is the key under which
\* the worker uploaded master.m3u8.
C38_StreamUrlLeadsToMaster ==
    \A j \in DOMAIN jobs :
        (jobs[j].status = "completed" /\ jobs[j].url # NoUrl)
        => LET r == Route(Segments(jobs[j].url, jobs[j].key))
           IN  /\ r.handler = "proxyHlsMaster"
               /\ ProxyMasterKey(r.params) = UploadedMasterKey(jobs[j].key)

====
